---- MODULE Spec2Model ----
(***************************************************************************)
(* Slot availability and conflict resolution of the quincho reservation    *)
(* system: the reservations / blocked_dates / cancellations tables with    *)
(* their constraints, triggers and row-level policies, and the client      *)
(* handlers that read and write them.                                      *)
(***************************************************************************)
EXTENDS Integers, Sequences, FiniteSets, TLC

(* ----------------------------- bounds ---------------------------------- *)
MaxRows == 2
MaxFecha == 2
MaxTime == 2
MaxNow == 2
MaxAudit == 2
MaxBlocks == 1
MaxCalls == 1

(* ------------------------- program constants --------------------------- *)
\* 24 hours, in days: the unit of the model's clock
TokenTTL == 1

Ids == 1..MaxRows
Fechas == 1..MaxFecha
Times == 0..MaxTime
Instants == 0..MaxNow
Calls == 1..MaxCalls

NULL == "NULL"
NoTime == -1
NoRow == [status |-> "none"]

Responsables == {"Ana", "Admin"}
Statuses == {"pending", "approved", "rejected", "cancelled"}
Admins == {"adm"}
Actors == Admins \cup {"usr", "anon"}
Clients == {"c1", "c2"}
Motivos == {NULL, "m"}
Reasons == {NULL, "r"}

VARIABLES
    db,             \* public.reservations: id -> row, or NoRow
    nextId,         \* number of ids handed out so far
    blocked,        \* public.blocked_dates: set of rows
    cancellations,  \* public.cancellations: sequence of audit rows
    now,            \* wall clock, in days
    sub,            \* addReservation calls awaiting their insert: client -> call
    del,            \* deleteReservation calls in progress: call -> locals
    fx,             \* what the last completed handler reported
    mail,           \* the send-email function's request in progress
    form,           \* useReservationSubmit's state in the reservation form
    profiles,       \* public.profiles: user id -> is_admin, or "none"
    auth,           \* the login call in progress
    hook            \* useReservationDataFetching: its state and refs

vars == <<db, nextId, blocked, cancellations, now, sub, del, fx, mail, form,
          profiles, auth, hook>>

(* --------------------------- the database ------------------------------ *)
\* profiles.is_admin of the actor, as the row-level policies read it
IsAdminActor(a) == a /= "anon" /\ profiles[a] = "true"

Exists(d, i) == d[i] /= NoRow

LiveIds(d) == {i \in Ids : Exists(d, i)}

\* reservation_time_range(fecha, inicio, fin): tsrange of the two timestamps,
\* closed below and open above; a timestamp is counted in time units
Timestamp(fecha, t) == fecha * (MaxTime + 1) + t

reservation_time_range(fecha, inicio, fin) ==
    [lo |-> Timestamp(fecha, inicio), hi |-> Timestamp(fecha, fin)]

\* the && operator on two ranges: they share a point
RangeIsEmpty(r) == r.lo >= r.hi

\* ranges built closed above, '[]': touching ranges share their end point
RangesOverlapClosed(r1, r2) == r1.lo <= r2.hi /\ r2.lo <= r1.hi

RangesOverlap(r1, r2) ==
    /\ ~RangeIsEmpty(r1)
    /\ ~RangeIsEmpty(r2)
    /\ \E p \in r1.lo..(r1.hi - 1) : p >= r2.lo /\ p < r2.hi

\* a WHERE clause that leaves pending rows out of the constraint
ExclPredicateApprovedOnly(row) == row.status = "approved"

\* a WHERE clause that also leaves unconfirmed rows out of the constraint
ExclPredicateConfirmedOnly(row) ==
    row.status \notin {"cancelled", "rejected"} /\ row.confirmed

\* WHERE clause of the exclusion constraint
ExclPredicate(row) == row.status \notin {"cancelled", "rejected"}

\* a table without the exclusion constraint
reservations_without_excl(d, i, row) == TRUE

\* reservations_no_overlap_excl: may `row` be stored under id i in table d
reservations_no_overlap_excl(d, i, row) ==
    ExclPredicate(row)
        => \A j \in LiveIds(d) \ {i} :
              ExclPredicate(d[j])
                  => ~(/\ d[j].fecha = row.fecha
                       /\ RangesOverlap(
                            reservation_time_range(row.fecha, row.inicio, row.fin),
                            reservation_time_range(d[j].fecha, d[j].inicio, d[j].fin)))

\* reservations_time_order_check and reservations_personas_positive_check
reservations_time_order_check(row) == row.fin > row.inicio

reservations_personas_positive_check(row) == row.personas > 0

\* error code of writing `row` under id i: "ok", "23514" (check) or "23P01"
WriteError(d, i, row) ==
    IF ~(reservations_time_order_check(row) /\ reservations_personas_positive_check(row))
    THEN "23514"
    ELSE IF ~reservations_no_overlap_excl(d, i, row) THEN "23P01"
    ELSE "ok"

\* an update policy that lets every role through
CanUpdateReservationsAnyone(a) == TRUE

\* "Only admins can update reservations": the rows an actor's UPDATE may touch
CanUpdateReservations(a) == IsAdminActor(a)

\* "Only admins can delete reservations"
CanDeleteReservations(a) == IsAdminActor(a)

\* UPDATE reservations SET ... WHERE id = i, as actor a: the new table and the
\* error code; a row the policy hides or that is gone is simply not matched
UpdateRow(d, a, i, row) ==
    IF ~Exists(d, i) \/ ~CanUpdateReservations(a)
    THEN [db |-> d, err |-> "ok", n |-> 0]
    ELSE IF WriteError(d, i, row) /= "ok"
         THEN [db |-> d, err |-> WriteError(d, i, row), n |-> 0]
         ELSE [db |-> [d EXCEPT ![i] = row], err |-> "ok", n |-> 1]

\* supabase.auth.getUser(): the id of the signed-in user, or null
adminId(a) == IF a = "anon" THEN NULL ELSE a

(* ------------------------------ rows ----------------------------------- *)
\* what a submission form sends: fecha, inicio, fin, personas, responsable
Requests ==
    [fecha : Fechas, inicio : Times, fin : Times, personas : {0, 1},
     responsable : Responsables]

NoReq == [fecha |-> 0]

\* notes written by the handlers
RejectNotes == {NULL, "nota"}

MotivoNote(reason) ==
    IF reason /= NULL THEN "Motivo: " \o reason ELSE "Motivo: No especificado"

\* COALESCE('Fechas bloqueadas por administracion: ' || NEW.motivo, '...')
cancel_reason(motivo) ==
    IF motivo /= NULL THEN "Fechas bloqueadas por administracion: " \o motivo
    ELSE "Fechas bloqueadas por administracion"

\* COALESCE(admin_notes || E'\n\n', '') || reason; admin_notes is the sequence
\* of its paragraphs, NULL the empty sequence
AppendNote(notes, reason) == Append(notes, reason)

IdleSub == [pc |-> "idle", req |-> NoReq, expires |-> NoTime, result |-> "none", id |-> 0]

IdleDel == [pc |-> "idle", actor |-> "anon", id |-> 0, reason |-> NULL,
            reservation |-> NoRow, previousStatus |-> "none", auditOk |-> FALSE]

NoFx == [res |-> "none", sent |-> {}, failed |-> {}]

Fx(res, sent, failed) == [res |-> res, sent |-> sent, failed |-> failed]

\* one e-mail about reservation i: handed to send-email, or failed and logged
Mail(i, mailOk) == IF mailOk THEN <<{i}, {}>> ELSE <<{}, {i}>>

(* ------------------------- addReservation ------------------------------ *)
\* insertData of addReservation: status pending, confirmed false and a token
\* expiry 24 hours after the call; created_at is the column default now()
insertData(q, expires, createdAt) ==
    [fecha |-> q.fecha, inicio |-> q.inicio, fin |-> q.fin, personas |-> q.personas,
     responsable |-> q.responsable, status |-> "pending", confirmed |-> FALSE,
     created_at |-> createdAt, token_expires_at |-> expires,
     admin_notes |-> << >>, updated_by |-> NULL]

\* the constraint the message of an insert error names
ErrorMessage(err) ==
    IF err = "23P01" THEN "reservations_no_overlap_excl"
    ELSE IF err = "23514" THEN "reservations_check"
    ELSE NULL

\* a test that takes every insert error for an overlap
isSlotTakenAlways(code, message) == TRUE

\* error.code === '23P01' || error.message?.includes('reservations_no_overlap_excl')
isSlotTaken(code, message) ==
    code = "23P01" \/ message = "reservations_no_overlap_excl"

\* what addReservation's catch receives for the error code of its insert
addReservationResult(err) ==
    IF err = "ok" THEN "ok"
    ELSE IF isSlotTaken(err, ErrorMessage(err)) THEN "SLOT_TAKEN"
    ELSE "error"

\* the toast of addReservation's catch
addReservationToast(res) ==
    IF res = "SLOT_TAKEN"
    THEN "Este horario ya fue reservado por otra persona. Por favor, elige otro horario."
    ELSE "Error al crear la reserva"

\* addReservation, from the form's submit to the toast
addReservation(q, mailOk) ==
    LET row == insertData(q, now + TokenTTL, now)
        id == nextId + 1
        err == WriteError(db, id, row)
    IN  /\ err = "ok" => nextId < MaxRows
        /\ IF err = "ok"
           THEN /\ db' = [db EXCEPT ![id] = row]
                /\ nextId' = id
                /\ fx' = Fx("ok", Mail(id, mailOk)[1], Mail(id, mailOk)[2])
           ELSE /\ UNCHANGED <<db, nextId>>
                    /\ fx' = Fx(addReservationResult(err), {}, {})
        /\ UNCHANGED <<blocked, cancellations, now, sub, del, mail, form, profiles, auth, hook>>

\* addReservation up to the await of the insert
Submit(c, q) ==
    /\ sub[c].pc = "idle"
    /\ sub' = [sub EXCEPT ![c] = [pc |-> "inflight", req |-> q,
                                  expires |-> now + TokenTTL, result |-> "none", id |-> 0]]
    /\ UNCHANGED <<db, nextId, blocked, cancellations, now, del, fx, mail, form, profiles, auth, hook>>

\* the awaited insert reaches the table; addReservation maps the error and returns
DbInsert(c) ==
    /\ sub[c].pc = "inflight"
    /\ LET row == insertData(sub[c].req, sub[c].expires, now)
           id == nextId + 1
           err == WriteError(db, id, row)
       IN  /\ err = "ok" => nextId < MaxRows
           /\ IF err = "ok"
              THEN /\ db' = [db EXCEPT ![id] = row]
                   /\ nextId' = id
                   /\ sub' = [sub EXCEPT ![c].pc = "done", ![c].result = "ok", ![c].id = id]
              ELSE /\ UNCHANGED <<db, nextId>>
                   /\ sub' = [sub EXCEPT ![c].pc = "done",
                                         ![c].result = addReservationResult(err)]
    /\ UNCHANGED <<blocked, cancellations, now, del, fx, mail, form, profiles, auth, hook>>

(* ---------------- createReservation and its pre-check ----------------- *)
\* times as text, ordered as JavaScript orders strings: "HH:MM" sorts right
\* before "HH:MM:SS" of the same minute, and both before any later minute
TimeFormats == {"HH:MM", "HH:MM:SS"}

TimeText(t, fmt) == IF fmt = "HH:MM" THEN 2 * t ELSE 2 * t + 1

\* a TIME column as the API returns it
DbTimeText(t) == TimeText(t, "HH:MM:SS")

\* doTimeRangesOverlap(start1, end1, start2, end2)
doTimeRangesOverlap(start1, end1, start2, end2) == start1 < end2 /\ end1 > start2

\* isTimeSlotWithinBlockedPeriod(date, startTime, endTime, blockedDates), the
\* times of the blocked dates as the API returns them; a null time is falsy
isTimeSlotWithinBlockedPeriod(date, startTime, endTime, blockedDates) ==
    \E blockedDate \in blockedDates :
        /\ date = blockedDate.fecha
        /\ IF blockedDate.start_time /= NoTime /\ blockedDate.end_time /= NoTime
           THEN doTimeRangesOverlap(startTime, endTime,
                                    DbTimeText(blockedDate.start_time),
                                    DbTimeText(blockedDate.end_time))
           ELSE TRUE

\* hasOverlap of checkAvailability, on time texts
hasOverlap(startTime, endTime, reservationStart, reservationEnd) ==
    \/ startTime >= reservationStart /\ startTime < reservationEnd
    \/ endTime > reservationStart /\ endTime <= reservationEnd
    \/ startTime <= reservationStart /\ endTime >= reservationEnd

\* checkAvailability(date, startTime, endTime); a failed select gives false
checkAvailability(d, date, startTime, endTime, selectOk) ==
    /\ selectOk
    /\ ~\E i \in LiveIds(d) :
          /\ d[i].status /= "cancelled"
          /\ d[i].fecha = date
          /\ hasOverlap(startTime, endTime, DbTimeText(d[i].inicio), DbTimeText(d[i].fin))

\* the row createReservation inserts: status, confirmed and token_expires_at
\* are left to the column defaults
createData(q, createdAt) ==
    [fecha |-> q.fecha, inicio |-> q.inicio, fin |-> q.fin, personas |-> q.personas,
     responsable |-> q.responsable, status |-> "pending", confirmed |-> FALSE,
     created_at |-> createdAt, token_expires_at |-> NoTime,
     admin_notes |-> << >>, updated_by |-> NULL]

\* createReservation(reservation), its times written in format fmt
createReservation(q, fmt, selectOk, mailOk) ==
    LET isAvailable == checkAvailability(db, q.fecha, TimeText(q.inicio, fmt),
                                         TimeText(q.fin, fmt), selectOk)
        row == createData(q, now)
        id == nextId + 1
        err == WriteError(db, id, row)
    IN  /\ (isAvailable /\ err = "ok") => nextId < MaxRows
        /\ IF ~isAvailable
           THEN /\ mailOk
                /\ fx' = Fx("unavailable", {}, {})
                /\ UNCHANGED <<db, nextId>>
           ELSE IF err /= "ok"
           THEN /\ mailOk
                /\ fx' = Fx("error", {}, {})
                /\ UNCHANGED <<db, nextId>>
           ELSE /\ db' = [db EXCEPT ![id] = row]
                /\ nextId' = id
                /\ fx' = Fx("ok", Mail(id, mailOk)[1], Mail(id, mailOk)[2])
        /\ UNCHANGED <<blocked, cancellations, now, sub, del, mail, form, profiles, auth, hook>>

\* the list fetchReservations hands to the calendar
fetchReservations(d) == {i \in LiveIds(d) : d[i].status /= "cancelled"}

(* ------------------- approve, reject, edit (admin) --------------------- *)
\* handleApproveReservation(id) called by actor a
handleApproveReservation(a, i, mailOk) ==
    /\ IF ~Exists(db, i)
       THEN /\ mailOk
            /\ fx' = Fx("error", {}, {})
            /\ UNCHANGED db
       ELSE LET u == UpdateRow(db, a, i, [db[i] EXCEPT !.status = "approved"])
            IN  IF u.err /= "ok"
                THEN /\ mailOk
                     /\ fx' = Fx("error", {}, {})
                     /\ UNCHANGED db
                ELSE /\ db' = u.db
                     /\ fx' = Fx("ok", Mail(i, mailOk)[1], Mail(i, mailOk)[2])
    /\ UNCHANGED <<nextId, blocked, cancellations, now, sub, del, mail, form, profiles, auth, hook>>

\* handleRejectReservation(id, adminNotes) called by actor a
handleRejectReservation(a, i, notes, mailOk) ==
    /\ IF ~Exists(db, i)
       THEN /\ mailOk
            /\ fx' = Fx("error", {}, {})
            /\ UNCHANGED db
       ELSE LET u == UpdateRow(db, a, i,
                        [db[i] EXCEPT !.status = "rejected",
                                      !.admin_notes = IF notes = NULL THEN << >> ELSE <<notes>>,
                                      !.updated_by = adminId(a)])
            IN  IF u.err /= "ok"
                THEN /\ mailOk
                     /\ fx' = Fx("error", {}, {})
                     /\ UNCHANGED db
                ELSE /\ db' = u.db
                     /\ fx' = Fx("ok", Mail(i, mailOk)[1], Mail(i, mailOk)[2])
    /\ UNCHANGED <<nextId, blocked, cancellations, now, sub, del, mail, form, profiles, auth, hook>>

\* the partial rows updateReservation is called with: a new slot, a new
\* status or new admin notes
Patches ==
    [kind : {"slot"}, fecha : Fechas, inicio : Times, fin : Times]
        \cup [kind : {"status"}, status : Statuses]
        \cup [kind : {"notes"}, notes : RejectNotes]

ApplyPatch(row, p) ==
    IF p.kind = "slot"
    THEN [row EXCEPT !.fecha = p.fecha, !.inicio = p.inicio, !.fin = p.fin]
    ELSE IF p.kind = "status"
    THEN [row EXCEPT !.status = p.status]
    ELSE [row EXCEPT !.admin_notes = IF p.notes = NULL THEN << >> ELSE <<p.notes>>]

\* updateReservation(id, updatedData) called by actor a
updateReservation(a, i, p) ==
    /\ Exists(db, i)
    /\ LET u == UpdateRow(db, a, i, ApplyPatch(db[i], p))
       IN  /\ db' = u.db
           /\ fx' = Fx(IF u.err = "ok" THEN "ok" ELSE "error", {}, {})
    /\ UNCHANGED <<nextId, blocked, cancellations, now, sub, del, mail, form, profiles, auth, hook>>

(* --------------------------- deleteReservation ------------------------- *)
\* the row written to public.cancellations
AuditRow(i, by, reason, prev, snapshot) ==
    [reservation_id |-> i, cancelled_by |-> by, reason |-> reason,
     previous_status |-> prev, reservation_snapshot |-> snapshot]

\* cancellations_insert_by_admins, and the foreign key to reservations
CanInsertCancellation(a, d, i) == IsAdminActor(a) /\ Exists(d, i)

\* updateObject of deleteReservation
updateObject(row, reason, by) ==
    [row EXCEPT !.status = "cancelled",
                !.admin_notes = <<MotivoNote(reason)>>,
                !.updated_by = IF by /= NULL THEN by ELSE @]

\* a deleteReservation that lets a failed audit insert or e-mail escape
deleteReservationStrict(updErr, auditOk, mailOk) ==
    IF updErr = "ok" /\ auditOk /\ mailOk THEN "ok" ELSE "error"

\* what deleteReservation reports: it throws on the update's error only; the
\* audit insert and the e-mail are caught
deleteReservationResult(updErr, auditOk, mailOk) ==
    IF updErr = "ok" THEN "ok" ELSE "error"

\* deleteReservation(id, reason): the select of the row; a missing row throws
DelRead(k, a, i, reason) ==
    /\ del[k].pc = "idle"
    /\ Len(cancellations) < MaxAudit
    /\ IF ~Exists(db, i)
       THEN /\ fx' = Fx("error", {}, {})
            /\ UNCHANGED del
       ELSE /\ del' = [del EXCEPT ![k] =
                  [pc |-> "audit", actor |-> a, id |-> i, reason |-> reason,
                   reservation |-> db[i], previousStatus |-> db[i].status,
                   auditOk |-> FALSE]]
            /\ UNCHANGED fx
    /\ UNCHANGED <<db, nextId, blocked, cancellations, now, sub, mail, form, profiles, auth, hook>>

\* the best-effort insert into cancellations; delivered tells whether the
\* request reached the table at all
DelAudit(k, delivered) ==
    /\ del[k].pc = "audit"
    /\ LET c == del[k]
           ok == delivered /\ CanInsertCancellation(c.actor, db, c.id)
       IN  /\ cancellations' =
                IF ok
                THEN Append(cancellations,
                            AuditRow(c.id, adminId(c.actor), c.reason,
                                     c.previousStatus, c.reservation))
                ELSE cancellations
           /\ del' = [del EXCEPT ![k].pc = "update", ![k].auditOk = ok]
    /\ UNCHANGED <<db, nextId, blocked, now, sub, fx, mail, form, profiles, auth, hook>>

\* the soft-cancel update, the cancellation e-mail and the return
DelUpdate(k, mailOk) ==
    /\ del[k].pc = "update"
    /\ LET c == del[k]
           u == UpdateRow(db, c.actor, c.id,
                          updateObject(IF Exists(db, c.id) THEN db[c.id] ELSE c.reservation,
                                       c.reason, adminId(c.actor)))
       IN  IF u.err /= "ok"
           THEN /\ fx' = Fx(deleteReservationResult(u.err, c.auditOk, mailOk), {},
                            IF c.auditOk THEN {} ELSE {0})
                /\ UNCHANGED db
           ELSE /\ db' = u.db
                /\ fx' = Fx(deleteReservationResult(u.err, c.auditOk, mailOk),
                            Mail(c.id, mailOk)[1],
                            Mail(c.id, mailOk)[2] \cup (IF c.auditOk THEN {} ELSE {0}))
    /\ del' = [del EXCEPT ![k] = IdleDel]
    /\ UNCHANGED <<nextId, blocked, cancellations, now, sub, mail, form, profiles, auth, hook>>

\* deleteReservation(id, reason) called by actor a, run without interruption
deleteReservation(a, i, reason, delivered, mailOk) ==
    /\ \A k \in Calls : del[k].pc = "idle"
    /\ Len(cancellations) < MaxAudit
    /\ IF ~Exists(db, i)
       THEN /\ fx' = Fx("error", {}, {})
            /\ UNCHANGED <<db, cancellations>>
       ELSE LET ok == delivered /\ CanInsertCancellation(a, db, i)
                u == UpdateRow(db, a, i, updateObject(db[i], reason, adminId(a)))
            IN  /\ cancellations' =
                     IF ok
                     THEN Append(cancellations,
                                 AuditRow(i, adminId(a), reason, db[i].status, db[i]))
                     ELSE cancellations
                /\ db' = u.db
                /\ fx' = Fx(deleteReservationResult(u.err, ok, mailOk),
                            IF u.err = "ok" THEN Mail(i, mailOk)[1] ELSE {},
                            (IF u.err = "ok" THEN Mail(i, mailOk)[2] ELSE {})
                                \cup (IF ok THEN {} ELSE {0}))
    /\ UNCHANGED <<nextId, blocked, now, sub, del, mail, form, profiles, auth, hook>>

(* ----------------------------- blockTimeSlot --------------------------- *)
\* the select of blockTimeSlot: not cancelled, on the date, and
\* inicio >= startTime OR fin <= endTime
existingReservations(d, date, startTime, endTime) ==
    {i \in LiveIds(d) : /\ d[i].status /= "cancelled"
                        /\ d[i].fecha = date
                        /\ (d[i].inicio >= startTime \/ d[i].fin <= endTime)}

\* cancellationReason of blockTimeSlot
cancellationReason(reason) == "Bloqueo: " \o reason

\* the orders in which the select may return the rows of S
Orders(S) ==
    {o \in [1..Cardinality(S) -> S] :
        \A x, y \in 1..Cardinality(S) : x /= y => o[x] /= o[y]}

\* the row blockTimeSlot inserts; status and confirmed are column defaults
blockedReservation(date, startTime, endTime, createdAt) ==
    [fecha |-> date, inicio |-> startTime, fin |-> endTime, personas |-> 0,
     responsable |-> "Admin", status |-> "pending", confirmed |-> FALSE,
     created_at |-> createdAt, token_expires_at |-> NoTime,
     admin_notes |-> << >>, updated_by |-> NULL]

\* one pass of blockTimeSlot's loop: deleteReservation(id, cancellationReason)
\* for a row not owned by 'Admin', its own failure caught
cancelOne(st, a, i, reason, delivered, mailFails) ==
    IF st.db[i].responsable = "Admin"
    THEN st
    ELSE LET ok == delivered /\ CanInsertCancellation(a, st.db, i)
             u == UpdateRow(st.db, a, i, updateObject(st.db[i], reason, adminId(a)))
         IN  [db |-> u.db,
              cancellations |->
                  IF ok
                  THEN Append(st.cancellations,
                              AuditRow(i, adminId(a), reason, st.db[i].status, st.db[i]))
                  ELSE st.cancellations,
              sent |-> st.sent \cup (IF u.err = "ok" /\ i \notin mailFails THEN {i} ELSE {}),
              failed |-> st.failed \cup (IF u.err = "ok" /\ i \in mailFails THEN {i} ELSE {})
                                   \cup (IF ok THEN {} ELSE {0})]

RECURSIVE cancelEach(_, _, _, _, _, _, _)
cancelEach(st, a, order, n, reason, delivered, mailFails) ==
    IF n > Len(order)
    THEN st
    ELSE cancelEach(cancelOne(st, a, order[n], reason, delivered, mailFails),
                    a, order, n + 1, reason, delivered, mailFails)

\* blockTimeSlot(date, startTime, endTime, reason) called by actor a: the
\* select, the loop of cancellations, then the insert of the placeholder
blockTimeSlot(a, date, startTime, endTime, reason, delivered, mailFails) ==
    LET found == existingReservations(db, date, startTime, endTime)
    IN  /\ \A k \in Calls : del[k].pc = "idle"
        /\ Len(cancellations) + Cardinality(found) <= MaxAudit
        /\ mailFails \subseteq found
        /\ \E order \in Orders(found) :
              LET st == cancelEach([db |-> db, cancellations |-> cancellations,
                                    sent |-> {}, failed |-> {}],
                                   a, order, 1, cancellationReason(reason),
                                   delivered, mailFails)
                  row == blockedReservation(date, startTime, endTime, now)
                  id == nextId + 1
                  err == WriteError(st.db, id, row)
              IN  /\ err = "ok" => nextId < MaxRows
                  /\ cancellations' = st.cancellations
                  /\ IF err = "ok"
                     THEN /\ db' = [st.db EXCEPT ![id] = row]
                          /\ nextId' = id
                          /\ fx' = Fx("ok", st.sent, st.failed)
                     ELSE /\ db' = st.db
                          /\ UNCHANGED nextId
                          /\ fx' = Fx("error", st.sent, st.failed)
        /\ UNCHANGED <<blocked, now, sub, del, mail, form, profiles, auth, hook>>

(* ------------------------ blocked dates cascade ------------------------ *)
BlockRows ==
    [fecha : Fechas, start_time : Times \cup {NoTime}, end_time : Times \cup {NoTime},
     motivo : Motivos, created_by : {NULL} \cup Admins]

\* blocked_dates_time_order_check
blocked_dates_time_order_check(b) ==
    b.end_time = NoTime \/ b.start_time = NoTime \/ b.end_time > b.start_time

\* blocked_dates_insert_admins
CanInsertBlockedDate(a) == IsAdminActor(a)

\* a WHERE clause that does not compare the dates
InBlockedRangeAnyDate(r, blk) ==
    /\ r.status \notin {"cancelled", "rejected"}
    /\ \/ blk.start_time = NoTime /\ blk.end_time = NoTime
       \/ /\ blk.start_time /= NoTime
          /\ blk.end_time /= NoTime
          /\ \/ r.inicio >= blk.start_time /\ r.inicio < blk.end_time
             \/ r.fin > blk.start_time /\ r.fin <= blk.end_time
             \/ r.inicio <= blk.start_time /\ r.fin >= blk.end_time

\* the WHERE clause of the trigger's loop over reservations
InBlockedRange(r, blk) ==
    /\ r.fecha = blk.fecha
    /\ r.status \notin {"cancelled", "rejected"}
    /\ \/ blk.start_time = NoTime /\ blk.end_time = NoTime
       \/ /\ blk.start_time /= NoTime
          /\ blk.end_time /= NoTime
          /\ \/ r.inicio >= blk.start_time /\ r.inicio < blk.end_time
             \/ r.fin > blk.start_time /\ r.fin <= blk.end_time
             \/ r.inicio <= blk.start_time /\ r.fin >= blk.end_time

\* cancel_reservations_in_blocked_range(): the table after the trigger's loop
cancel_reservations_in_blocked_range(d, blk) ==
    [i \in Ids |->
        IF Exists(d, i) /\ InBlockedRange(d[i], blk)
        THEN [d[i] EXCEPT !.status = "cancelled",
                          !.admin_notes = AppendNote(@, cancel_reason(blk.motivo)),
                          !.updated_by = blk.created_by]
        ELSE d[i]]

\* INSERT INTO blocked_dates by actor a, with trigger_cancel_reservations_on_block;
\* mailFails are the reservations whose http_post raises
InsertBlockedDate(a, b, mailFails) ==
    /\ Cardinality(blocked) < MaxBlocks
    /\ LET affected == {i \in LiveIds(db) : InBlockedRange(db[i], b)}
       IN  IF ~CanInsertBlockedDate(a) \/ ~blocked_dates_time_order_check(b)
           THEN /\ mailFails = {}
                /\ fx' = Fx("error", {}, {})
                /\ UNCHANGED <<db, blocked>>
           ELSE /\ mailFails \subseteq affected
                /\ db' = cancel_reservations_in_blocked_range(db, b)
                /\ blocked' = blocked \cup {b}
                /\ fx' = Fx("ok", affected \ mailFails, mailFails)
    /\ UNCHANGED <<nextId, cancellations, now, sub, del, mail, form, profiles, auth, hook>>

\* blocked_dates_update_admins
CanUpdateBlockedDates(a) == IsAdminActor(a)

\* blocked_dates_delete_admins
CanDeleteBlockedDates(a) == IsAdminActor(a)

\* UPDATE blocked_dates SET (row nb) WHERE (row b), as actor a; a row the
\* policy hides is not matched, and the trigger is AFTER INSERT only
UpdateBlockedDate(a, b, nb) ==
    /\ b \in blocked
    /\ IF ~CanUpdateBlockedDates(a)
       THEN /\ fx' = Fx("ok", {}, {})
            /\ UNCHANGED blocked
       ELSE IF ~blocked_dates_time_order_check(nb)
       THEN /\ fx' = Fx("error", {}, {})
            /\ UNCHANGED blocked
       ELSE /\ fx' = Fx("ok", {}, {})
            /\ blocked' = (blocked \ {b}) \cup {nb}
    /\ UNCHANGED <<db, nextId, cancellations, now, sub, del, mail, form, profiles, auth, hook>>

\* DELETE FROM blocked_dates WHERE (row b), as actor a
DeleteBlockedDate(a, b) ==
    /\ b \in blocked
    /\ blocked' = IF CanDeleteBlockedDates(a) THEN blocked \ {b} ELSE blocked
    /\ fx' = Fx("ok", {}, {})
    /\ UNCHANGED <<db, nextId, cancellations, now, sub, del, mail, form, profiles, auth, hook>>

\* DELETE FROM reservations WHERE id = i, as actor a; the audit rows of the
\* reservation go with it (ON DELETE CASCADE)
DeleteReservationRow(a, i) ==
    /\ Exists(db, i)
    /\ IF CanDeleteReservations(a)
       THEN /\ db' = [db EXCEPT ![i] = NoRow]
            /\ cancellations' =
                  SelectSeq(cancellations, LAMBDA c : c.reservation_id /= i)
       ELSE UNCHANGED <<db, cancellations>>
    /\ fx' = Fx("ok", {}, {})
    /\ UNCHANGED <<nextId, blocked, now, sub, del, mail, form, profiles, auth, hook>>

(* ---------------------------- cleanup sweep ---------------------------- *)
\* the rows the cleanup function deletes: unconfirmed and created before the cutoff
\* a cleanup that does not look at the confirmed flag
SweptConfirmedToo(d, t) ==
    {i \in LiveIds(d) : d[i].created_at < t - TokenTTL}

Swept(d, t) ==
    {i \in LiveIds(d) : d[i].confirmed = FALSE /\ d[i].created_at < t - TokenTTL}

\* the scheduled cleanup; cancellations.reservation_id is ON DELETE CASCADE
Sweep ==
    /\ Swept(db, now) /= {}
    /\ db' = [i \in Ids |-> IF i \in Swept(db, now) THEN NoRow ELSE db[i]]
    /\ cancellations' =
          SelectSeq(cancellations, LAMBDA c : c.reservation_id \notin Swept(db, now))
    /\ fx' = Fx("ok", {}, {})
    /\ UNCHANGED <<nextId, blocked, now, sub, del, mail, form, profiles, auth, hook>>

(* --------------------------- confirmation ------------------------------ *)
\* the confirmation_token of row i is i; 0 is a token of no row
Tokens == Ids \cup {0}

\* confirmReservation of ConfirmReservationPage, opened by actor a
confirmReservation(a, token) ==
    /\ LET match == {i \in LiveIds(db) : i = token /\ db[i].token_expires_at > now}
           u == IF match = {} THEN [db |-> db, err |-> "ok", n |-> 0]
                ELSE UpdateRow(db, a, token, [db[token] EXCEPT !.confirmed = TRUE])
       IN  /\ db' = u.db
           /\ fx' = Fx(IF u.err = "ok" /\ u.n = 1 THEN "success"
                       ELSE IF token \in LiveIds(db) THEN "expired"
                       ELSE "error", {}, {})
    /\ UNCHANGED <<nextId, blocked, cancellations, now, sub, del, mail, form, profiles, auth, hook>>

(* ------------------------------ the clock ------------------------------ *)
\* d days pass
Tick(d) ==
    /\ now + d <= MaxNow
    /\ now' = now + d
    /\ UNCHANGED <<db, nextId, blocked, cancellations, sub, del, fx, mail, form, profiles, auth, hook>>

(* ------------------------------- login -------------------------------- *)
\* the accounts of auth.users
Users == Actors \ {"anon"}

\* what an awaited request can end in besides its data
Faults == {"error", "throws"}

\* login before it is called: user and fiuna (the e-mail ends with
\* @fiuna.edu.py) identify the account, signIn is what signInWithPassword
\* ended in, cause the event that ended the profile lookup, isAdmin the
\* local of the auto-creation, fetched what fetchUserProfile settled with,
\* result what login returned
IdleAuth == [pc |-> "idle", user |-> NULL, fiuna |-> FALSE, signIn |-> "none",
             cause |-> "none", isAdmin |-> FALSE, fetched |-> "none", result |-> "none"]

\* a fetchUserProfile without its outer try/catch
fetchUserProfileUncaught(cause) == "rejected"

\* the outer catch of fetchUserProfile: return false
fetchUserProfileCaught(cause) == "false"

\* login's own catch around fetchUserProfile, and its return true
loginReturn(a) == [a EXCEPT !.pc = "done", !.result = "true"]

\* login(email, password) up to the await of signInWithPassword
login(u, fiuna) ==
    /\ auth.pc = "idle"
    /\ auth' = [auth EXCEPT !.pc = "signIn", !.user = u, !.fiuna = fiuna]
    /\ UNCHANGED <<db, nextId, blocked, cancellations, now, sub, del, fx, mail, form, profiles, hook>>

\* signInWithPassword settles: with an error, by throwing, or with the
\* session of the user (or, without error, with no user)
signInSettles(outcome) ==
    /\ auth.pc = "signIn"
    /\ auth' = IF outcome \in Faults
               THEN [auth EXCEPT !.pc = "done", !.signIn = outcome, !.result = "false"]
               ELSE IF outcome = "no_user"
               THEN loginReturn([auth EXCEPT !.signIn = "ok"])
               ELSE [auth EXCEPT !.pc = "race", !.signIn = "ok"]
    /\ fx' = IF outcome \in Faults THEN Fx("error", {}, {}) ELSE fx
    /\ UNCHANGED <<db, nextId, blocked, cancellations, now, sub, del, mail, form, profiles, hook>>

\* fetchUserProfile: the profile query answers before the timer; outcome is
\* "ok" for an answer with the row or with no row
profileQuerySettles(outcome) ==
    /\ auth.pc = "race"
    /\ auth' = IF outcome = "error"
               THEN loginReturn([auth EXCEPT !.cause = "error", !.fetched = "false"])
               ELSE IF outcome = "throws"
               THEN loginReturn([auth EXCEPT !.cause = "throws",
                                             !.fetched = fetchUserProfileCaught("throws")])
               ELSE IF profiles[auth.user] = "none"
               THEN [auth EXCEPT !.pc = "getUser"]
               ELSE loginReturn([auth EXCEPT !.cause = "row",
                                             !.fetched = profiles[auth.user]])
    /\ UNCHANGED <<db, nextId, blocked, cancellations, now, sub, del, fx, mail, form, profiles, hook>>

\* fetchUserProfile: the 3 s timer rejects before the query has answered
profileTimeout ==
    /\ auth.pc = "race"
    /\ auth' = loginReturn([auth EXCEPT !.cause = "timeout",
                                        !.fetched = fetchUserProfileCaught("timeout")])
    /\ UNCHANGED <<db, nextId, blocked, cancellations, now, sub, del, fx, mail, form, profiles, hook>>

\* the auto-creation: supabase.auth.getUser() settles
getUserSettles(outcome) ==
    /\ auth.pc = "getUser"
    /\ auth' = IF outcome = "throws"
               THEN loginReturn([auth EXCEPT !.cause = "throws", !.fetched = "false"])
               ELSE [auth EXCEPT !.pc = "insert",
                                 !.isAdmin = (outcome = "ok" /\ auth.fiuna)]
    /\ UNCHANGED <<db, nextId, blocked, cancellations, now, sub, del, fx, mail, form, profiles, hook>>

\* the auto-creation: the insert into profiles settles; a row created
\* meanwhile makes it fail on the primary key
profileInsertSettles(outcome) ==
    /\ auth.pc = "insert"
    /\ LET written == outcome = "ok" /\ profiles[auth.user] = "none"
       IN  /\ profiles' = IF written
                          THEN [profiles EXCEPT ![auth.user] =
                                    IF auth.isAdmin THEN "true" ELSE "false"]
                          ELSE profiles
           /\ auth' = IF outcome = "throws"
                      THEN loginReturn([auth EXCEPT !.cause = "throws", !.fetched = "false"])
                      ELSE IF ~written
                      THEN loginReturn([auth EXCEPT !.cause = "error", !.fetched = "false"])
                      ELSE loginReturn([auth EXCEPT !.cause = "created",
                                           !.fetched = IF auth.isAdmin THEN "true" ELSE "false"])
    /\ UNCHANGED <<db, nextId, blocked, cancellations, now, sub, del, fx, mail, form, hook>>

\* the next login
loginAgain ==
    /\ auth.pc = "done"
    /\ auth' = IdleAuth
    /\ UNCHANGED <<db, nextId, blocked, cancellations, now, sub, del, fx, mail, form, profiles, hook>>

(* ------------------------------ profiles ------------------------------ *)
\* "Users can insert own profile": TO authenticated WITH CHECK (auth.uid() = id)
CanInsertProfile(a, u) == a /= "anon" /\ a = u

\* profiles_update_self_or_admin: TO authenticated USING (auth.uid() = id OR
\* the caller is an admin); without WITH CHECK the new row is held to the same
\* expression
CanUpdateProfile(a, u) == a /= "anon" /\ (a = u \/ IsAdminActor(a))

\* INSERT INTO profiles (id, is_admin) VALUES (u, isAdmin), requested by a
InsertProfile(a, u, isAdmin) ==
    /\ IF CanInsertProfile(a, u) /\ profiles[u] = "none"
       THEN /\ profiles' = [profiles EXCEPT ![u] = isAdmin]
            /\ fx' = Fx("ok", {}, {})
       ELSE /\ UNCHANGED profiles
            /\ fx' = Fx("error", {}, {})
    /\ UNCHANGED <<db, nextId, blocked, cancellations, now, sub, del, mail, form, auth, hook>>

\* UPDATE profiles SET is_admin = isAdmin WHERE id = u, requested by a; a row
\* the policy hides is not matched
UpdateProfile(a, u, isAdmin) ==
    /\ IF CanUpdateProfile(a, u) /\ profiles[u] /= "none"
       THEN profiles' = [profiles EXCEPT ![u] = isAdmin]
       ELSE UNCHANGED profiles
    /\ fx' = Fx("ok", {}, {})
    /\ UNCHANGED <<db, nextId, blocked, cancellations, now, sub, del, mail, form, auth, hook>>

(* -------------------- useReservationDataFetching ---------------------- *)
\* maxRetries of useReservationDataFetching
fetchMaxRetries == 3

\* the delay of the retry timer, in milliseconds
RetryDelay == 2000

\* what a select can end in: rows, an error in the answer, or a throw
SelectOutcomes == {"data", "error", "throws"}

\* the hook after its first render: useState([]), useState([]),
\* useState(true), useRef(true), useRef(0); pc is the await initialize is at,
\* lastFetch what the last select of reservations ended in, toasts the
\* messages shown, timers the delays of the timers armed, late whether a
\* setter ran while mountedRef was false
IdleHook == [pc |-> "rendered", mountedRef |-> TRUE, fetchAttemptsRef |-> 0,
             isLoading |-> TRUE, reservations |-> {}, blockedDates |-> {},
             lastFetch |-> "none", toasts |-> {}, timers |-> << >>, late |-> FALSE]

\* a state setter called on hook state h
SetState(h, field, value) ==
    [h EXCEPT ![field] = value, !.late = @ \/ ~h.mountedRef]

\* safeUpdate(callback) with a callback that calls one setter
safeUpdate(h, field, value) ==
    IF h.mountedRef THEN SetState(h, field, value) ELSE h

\* formattedData of fetchBlockedDates: id, fecha, motivo, created_at, created_by
FormattedBlockedDates(rows) ==
    {[fecha |-> b.fecha, motivo |-> b.motivo, created_by |-> b.created_by] : b \in rows}

\* how a call of fetchReservations settles: its catch shows a toast and
\* returns, so the promise resolves whatever the select ended in
fetchReservationsSettled(outcome) == "resolved"

\* the body of fetchReservations after its select has ended in outcome
fetchReservationsBody(h, d, outcome) ==
    LET h1 == [h EXCEPT !.lastFetch = outcome]
    IN  IF outcome = "data"
        THEN safeUpdate(h1, "reservations", fetchReservations(d))
        ELSE IF h1.mountedRef
             THEN [h1 EXCEPT !.toasts = @ \cup {"Error al cargar las reservas"}]
             ELSE h1

\* the catch of initialize
initializeCatch(h) ==
    IF h.fetchAttemptsRef < fetchMaxRetries
    THEN [h EXCEPT !.fetchAttemptsRef = @ + 1,
                   !.timers = Append(@, RetryDelay),
                   !.pc = "timer"]
    ELSE LET h1 == [h EXCEPT !.toasts = @ \cup {"Error al cargar los datos de reservas"},
                             !.pc = "done"]
         IN  IF h1.mountedRef THEN SetState(h1, "isLoading", FALSE) ELSE h1

\* the end of initialize's try block
initializeDone(h) ==
    IF h.mountedRef
    THEN SetState([h EXCEPT !.pc = "done"], "isLoading", FALSE)
    ELSE [h EXCEPT !.pc = "done"]

\* the effect runs after the first render: mountedRef.current = true and
\* initialize() up to the await of the select of reservations
mountEffect ==
    /\ hook.pc = "rendered"
    /\ hook' = SetState([hook EXCEPT !.mountedRef = TRUE, !.pc = "fetchReservations"],
                        "isLoading", TRUE)
    /\ UNCHANGED <<db, nextId, blocked, cancellations, now, sub, del, fx, mail, form,
                   profiles, auth>>

\* the select of reservations ends; initialize goes on to fetchBlockedDates,
\* which returns at once when the component has unmounted
fetchReservationsSettles(outcome) ==
    /\ hook.pc = "fetchReservations"
    /\ LET h1 == fetchReservationsBody(hook, db, outcome)
       IN  hook' = IF fetchReservationsSettled(outcome) = "rejected"
                   THEN initializeCatch(h1)
                   ELSE IF h1.mountedRef
                   THEN [h1 EXCEPT !.pc = "fetchBlockedDates"]
                   ELSE initializeDone(h1)
    /\ UNCHANGED <<db, nextId, blocked, cancellations, now, sub, del, fx, mail, form,
                   profiles, auth>>

\* the select of blocked_dates ends: fetchBlockedDates returns on an error
\* and catches a throw; initialize then clears isLoading
fetchBlockedDatesSettles(outcome) ==
    /\ hook.pc = "fetchBlockedDates"
    /\ LET h1 == IF outcome = "data"
                 THEN safeUpdate(hook, "blockedDates", FormattedBlockedDates(blocked))
                 ELSE hook
       IN  hook' = initializeDone(h1)
    /\ UNCHANGED <<db, nextId, blocked, cancellations, now, sub, del, fx, mail, form,
                   profiles, auth>>

\* the retry timer fires: initialize() again if still mounted
retryInitialize ==
    /\ hook.pc = "timer"
    /\ hook' = IF hook.mountedRef
               THEN SetState([hook EXCEPT !.pc = "fetchReservations"], "isLoading", TRUE)
               ELSE [hook EXCEPT !.pc = "done"]
    /\ UNCHANGED <<db, nextId, blocked, cancellations, now, sub, del, fx, mail, form,
                   profiles, auth>>

\* the cleanup of the effect
unmount ==
    /\ hook.pc /= "rendered"
    /\ hook.mountedRef
    /\ hook' = [hook EXCEPT !.mountedRef = FALSE]
    /\ UNCHANGED <<db, nextId, blocked, cancellations, now, sub, del, fx, mail, form,
                   profiles, auth>>

(* ------------------------- the reservation form ----------------------- *)
\* useState(false), useState(false)
IdleForm == [isSubmitting |-> FALSE, submissionSuccess |-> FALSE]

\* a submit action of the form (the form's onSubmit or the footer's
\* onSubmit, both handleSubmit): submitReservation up to the await of
\* addReservation's insert; c is the call, valid what validateForm returns
submitReservation(c, q, valid) ==
    /\ sub[c].pc = "idle"
    /\ IF ~valid
       THEN /\ fx' = Fx("invalid", {}, {})
            /\ UNCHANGED <<sub, form, profiles, auth>>
       ELSE /\ form' = [isSubmitting |-> TRUE, submissionSuccess |-> FALSE]
            /\ sub' = [sub EXCEPT ![c] = [pc |-> "inflight", req |-> q,
                                          expires |-> now + TokenTTL,
                                          result |-> "none", id |-> 0]]
            /\ UNCHANGED fx
    /\ UNCHANGED <<db, nextId, blocked, cancellations, now, del, mail, profiles, auth, hook>>

\* the insert of call c settles: addReservation maps the error and returns,
\* and submitReservation sets its flags and shows its toast
submitSettled(c) ==
    /\ sub[c].pc = "inflight"
    /\ LET row == insertData(sub[c].req, sub[c].expires, now)
           id == nextId + 1
           err == WriteError(db, id, row)
       IN  /\ err = "ok" => nextId < MaxRows
           /\ IF err = "ok"
              THEN /\ db' = [db EXCEPT ![id] = row]
                   /\ nextId' = id
                   /\ sub' = [sub EXCEPT ![c].pc = "done", ![c].result = "ok", ![c].id = id]
                   /\ form' = [isSubmitting |-> FALSE, submissionSuccess |-> TRUE]
                   /\ fx' = Fx("ok", {id}, {})
              ELSE /\ UNCHANGED <<db, nextId>>
                   /\ sub' = [sub EXCEPT ![c].pc = "done",
                                         ![c].result = addReservationResult(err)]
                   /\ form' = [form EXCEPT !.isSubmitting = FALSE]
                   /\ fx' = Fx(addReservationResult(err), {}, {})
    /\ UNCHANGED <<blocked, cancellations, now, del, mail, profiles, auth, hook>>

(* ------------------------ the send-email function --------------------- *)
maxRetries == 3

BackoffBase == 300

\* EmailRequest.type
EmailTypes == {"confirm-reservation", "reservation-approved", "reservation-cancelled",
               "reservation-rejected", "reservation-reminder"}

\* what one fetch to the mail service can end in: a response with ok, a
\* response without ok, or a rejected promise
FetchOutcomes == {"ok", "not_ok", "rejected"}

\* the function before a request: attempt counts the fetches, outcomes are
\* their results, delays the waits in ms, status the HTTP status answered
IdleMail == [pc |-> "idle", type |-> NULL, rendered |-> FALSE, attempt |-> 0,
             outcomes |-> << >>, delays |-> << >>, status |-> 0]

\* a wait that does not grow
backoffMsFlat(attempt) == 2 * BackoffBase

\* Math.pow(2, attempt) * 300
backoffMs(attempt) == (2 ^ attempt) * BackoffBase

\* the request arrives; the body is parsed and the template loaded and
\* filled, and a failure of either is answered by the outer catch
MailRequest(type, rendered) ==
    /\ mail.pc = "idle"
    /\ mail' = IF rendered
               THEN [mail EXCEPT !.pc = "loop", !.type = type, !.rendered = TRUE]
               ELSE [mail EXCEPT !.pc = "done", !.type = type, !.status = 500]
    /\ UNCHANGED <<db, nextId, blocked, cancellations, now, sub, del, fx, form, profiles, auth, hook>>

\* one pass of the while loop: the test, the fetch with its outcome, and
\* the break, the start of the wait, or the throw to the outer catch
MailAttempt(outcome) ==
    /\ mail.pc = "loop"
    /\ IF mail.attempt < maxRetries
       THEN LET attempt == mail.attempt + 1
                tried == [mail EXCEPT !.attempt = attempt,
                                      !.outcomes = Append(@, outcome)]
            IN  mail' = IF outcome = "ok"
                        THEN [tried EXCEPT !.pc = "done", !.status = 200]
                        ELSE IF attempt < maxRetries
                        THEN [tried EXCEPT !.pc = "delay",
                                           !.delays = Append(@, backoffMs(attempt))]
                        ELSE [tried EXCEPT !.pc = "done", !.status = 500]
       ELSE /\ outcome = "ok"
            /\ mail' = [mail EXCEPT !.pc = "done", !.status = 200]
    /\ UNCHANGED <<db, nextId, blocked, cancellations, now, sub, del, fx, form, profiles, auth, hook>>

\* the timer of delay(backoffMs) fires and the loop continues
MailDelay ==
    /\ mail.pc = "delay"
    /\ mail' = [mail EXCEPT !.pc = "loop"]
    /\ UNCHANGED <<db, nextId, blocked, cancellations, now, sub, del, fx, form, profiles, auth, hook>>

(* -------------------------- the specification -------------------------- *)
Init ==
    /\ db = [i \in Ids |-> NoRow]
    /\ nextId = 0
    /\ blocked = {}
    /\ cancellations = << >>
    /\ now = 0
    /\ sub = [c \in Clients |-> IdleSub]
    /\ del = [k \in Calls |-> IdleDel]
    /\ fx = NoFx
    /\ mail = IdleMail
    /\ form = IdleForm
    /\ profiles = [u \in Users |-> IF u \in Admins THEN "true" ELSE "none"]
    /\ auth = IdleAuth
    /\ hook = IdleHook

\* Specification Spec: every write path to reservations, with the inputs that
\* do not bear on the slot held fixed. handleApproveReservation has no guard on
\* the current status, so it is also the step that brings a cancelled or
\* rejected row back into the active set. The clock is read every second
\* day, when every earlier unconfirmed row is due for the cleanup.
SlotRequests == {q \in Requests : q.responsable = "Ana" /\ q.personas = 1}

SlotPatches == {p \in Patches : p.kind = "slot"}

SlotBlocks ==
    {b \in BlockRows : /\ b.fecha = 1
                       /\ b.start_time = 0
                       /\ b.end_time = 1
                       /\ b.motivo = NULL
                       /\ b.created_by = "adm"}

NextSlots ==
    \/ \E q \in SlotRequests : addReservation(q, TRUE)
    \/ \E i \in Ids : handleApproveReservation("adm", i, TRUE)
    \/ \E i \in Ids : handleRejectReservation("adm", i, NULL, TRUE)
    \/ \E i \in Ids, p \in SlotPatches : updateReservation("adm", i, p)
    \/ \E i \in Ids : deleteReservation("adm", i, NULL, FALSE, TRUE)
    \/ \E b \in SlotBlocks : InsertBlockedDate("adm", b, {})
    \/ Tick(2 * TokenTTL)
    \/ Sweep

Spec == Init /\ [][NextSlots]_vars

\* Specification SpecAccept: submissions and the admin's changes of status and
\* of slot, at one instant and without blocked dates
NextAccept ==
    \/ \E q \in SlotRequests : addReservation(q, TRUE)
    \/ \E i \in Ids : handleApproveReservation("adm", i, TRUE)
    \/ \E i \in Ids : handleRejectReservation("adm", i, NULL, TRUE)
    \/ \E i \in Ids, p \in SlotPatches : updateReservation("adm", i, p)
    \/ \E i \in Ids : deleteReservation("adm", i, NULL, FALSE, TRUE)

SpecAccept == Init /\ [][NextAccept]_vars

\* Specification SpecConfirm: submissions, the confirmation link opened by an
\* admin session or by a visitor, approval, and the passing of days with the
\* cleanup
NextConfirm ==
    \/ \E q \in SlotRequests : addReservation(q, TRUE)
    \/ \E a \in {"adm", "anon"}, t \in Tokens : confirmReservation(a, t)
    \/ \E i \in Ids : handleApproveReservation("adm", i, TRUE)
    \/ Tick(TokenTTL)
    \/ Sweep

SpecConfirm == Init /\ [][NextConfirm]_vars

\* Specification SpecCreate: both creation paths, rejection and cancellation
NextCreate ==
    \/ \E q \in SlotRequests : addReservation(q, TRUE)
    \/ \E q \in SlotRequests, fmt \in TimeFormats, selectOk \in BOOLEAN :
          createReservation(q, fmt, selectOk, TRUE)
    \/ \E i \in Ids : handleRejectReservation("adm", i, NULL, TRUE)
    \/ \E i \in Ids : deleteReservation("adm", i, NULL, FALSE, TRUE)

SpecCreate == Init /\ [][NextCreate]_vars

\* Specification SpecBlock: reservations of any owner are submitted, approved
\* and rejected, and a block of date 1 is inserted
BlockRequests == {q \in Requests : q.fin > q.inicio /\ q.personas = 1}

CascadeBlocks == {b \in BlockRows : b.fecha = 1 /\ b.created_by = "adm"}

NextBlock ==
    \/ \E q \in BlockRequests : addReservation(q, TRUE)
    \/ \E i \in Ids : handleApproveReservation("adm", i, TRUE)
    \/ \E i \in Ids : handleRejectReservation("adm", i, NULL, TRUE)
    \/ \E b \in CascadeBlocks, mailFails \in SUBSET Ids :
          InsertBlockedDate("adm", b, mailFails)

SpecBlock == Init /\ [][NextBlock]_vars

\* Specification SpecCancel: reservations of date 1 are submitted and
\* annotated, and cancelled by an admin or by a whole-day block of that date
CancelRequests == {q \in SlotRequests : q.fin > q.inicio /\ q.fecha = 1}

NotePatches == {p \in Patches : p.kind = "notes" /\ p.notes /= NULL}

CancelBlocks ==
    {b \in BlockRows : /\ b.fecha = 1
                       /\ b.start_time = NoTime /\ b.end_time = NoTime
                       /\ b.created_by = "adm"}

NextCancel ==
    \/ \E q \in CancelRequests : addReservation(q, TRUE)
    \/ \E i \in Ids, p \in NotePatches : updateReservation("adm", i, p)
    \/ \E i \in Ids, reason \in Reasons : deleteReservation("adm", i, reason, TRUE, TRUE)
    \/ \E b \in CancelBlocks : InsertBlockedDate("adm", b, {})

SpecCancel == Init /\ [][NextCancel]_vars

\* Specification SpecFail: submissions, approvals, and cancellations by an
\* admin or by a block whose audit inserts and e-mails may fail
NextFail ==
    \/ \E q \in CancelRequests : addReservation(q, TRUE)
    \/ \E i \in Ids : handleApproveReservation("adm", i, TRUE)
    \/ \E i \in Ids, delivered \in BOOLEAN, mailOk \in BOOLEAN :
          deleteReservation("adm", i, NULL, delivered, mailOk)
    \/ \E b \in CancelBlocks, mailFails \in SUBSET Ids :
          InsertBlockedDate("adm", b, mailFails)

SpecFail == Init /\ [][NextFail]_vars

\* Specification SpecAudit: submissions, approvals, and deleteReservation
\* calls by an admin, whose three requests interleave with the other steps
NextAudit ==
    \/ \E q \in CancelRequests : addReservation(q, TRUE)
    \/ \E i \in Ids : handleApproveReservation("adm", i, TRUE)
    \/ \E k \in Calls, i \in Ids : DelRead(k, "adm", i, NULL)
    \/ \E k \in Calls, delivered \in BOOLEAN : DelAudit(k, delivered)
    \/ \E k \in Calls : DelUpdate(k, TRUE)

SpecAudit == Init /\ [][NextAudit]_vars

\* Specification SpecPurge: submissions, cancellations by an admin with their
\* audit rows, and the cleanup after two days
NextPurge ==
    \/ \E q \in CancelRequests : addReservation(q, TRUE)
    \/ \E i \in Ids : deleteReservation("adm", i, NULL, TRUE, TRUE)
    \/ Tick(2 * TokenTTL)
    \/ Sweep

SpecPurge == Init /\ [][NextPurge]_vars

\* Specification SpecSubmit: the two creation paths, on any day
NextSubmit ==
    \/ \E q \in SlotRequests : addReservation(q, TRUE)
    \/ \E q \in SlotRequests, fmt \in TimeFormats :
          createReservation(q, fmt, TRUE, TRUE)
    \/ Tick(TokenTTL)

SpecSubmit == Init /\ [][NextSubmit]_vars

\* Specification SpecLink: submissions and confirmation links opened, any
\* number of times, in a browser session that may update reservations
NextLink ==
    \/ \E q \in SlotRequests : addReservation(q, TRUE)
    \/ \E t \in Tokens : confirmReservation("adm", t)
    \/ Tick(TokenTTL)
    \/ Sweep

SpecLink == Init /\ [][NextLink]_vars

\* Specification SpecGate: submissions, an admin who blocks, unblocks and
\* deletes reservations, and every admin-only request made by a signed-in user without
\* the admin flag or by an anonymous visitor
Outsiders == Actors \ Admins

StatusPatches == {p \in Patches : p.kind = "status"}

GateBlocks ==
    {b \in BlockRows : /\ b.fecha = 1
                       /\ <<b.start_time, b.end_time>> \in {<<NoTime, NoTime>>, <<0, 1>>}
                       /\ b.motivo = NULL
                       /\ b.created_by = "adm"}

\* the admin-only requests, made by actor a
AdminOnly(a) ==
    \/ \E i \in Ids : handleApproveReservation(a, i, TRUE)
    \/ \E i \in Ids : handleRejectReservation(a, i, NULL, TRUE)
    \/ \E i \in Ids : deleteReservation(a, i, NULL, TRUE, TRUE)
    \/ \E i \in Ids, p \in StatusPatches : updateReservation(a, i, p)
    \/ \E i \in Ids : DeleteReservationRow(a, i)
    \/ \E b \in GateBlocks : InsertBlockedDate(a, b, {})
    \/ \E b \in GateBlocks, nb \in GateBlocks : UpdateBlockedDate(a, b, nb)
    \/ \E b \in GateBlocks : DeleteBlockedDate(a, b)

NextGate ==
    \/ \E q \in CancelRequests : addReservation(q, TRUE)
    \/ \E i \in Ids : DeleteReservationRow("adm", i)
    \/ \E b \in GateBlocks : InsertBlockedDate("adm", b, {})
    \/ \E b \in GateBlocks, nb \in GateBlocks : UpdateBlockedDate("adm", b, nb)
    \/ \E b \in GateBlocks : DeleteBlockedDate("adm", b)
    \/ \E a \in Outsiders : AdminOnly(a)

SpecGate == Init /\ [][NextGate]_vars

\* Specification SpecMail: one request to the send-email function; every
\* fetch settles and every timer fires
NextMail ==
    \/ \E type \in EmailTypes, rendered \in BOOLEAN : MailRequest(type, rendered)
    \/ \E outcome \in FetchOutcomes : MailAttempt(outcome)
    \/ MailDelay

SpecMail == Init /\ [][NextMail]_vars /\ WF_vars(NextMail)

\* Specification SpecForm: one reservation form; its submit action may be
\* taken again while an earlier call has not settled
NextForm ==
    \/ \E c \in Clients, q \in SlotRequests, valid \in BOOLEAN : submitReservation(c, q, valid)
    \/ \E c \in Clients : submitSettled(c)

SpecForm == Init /\ [][NextForm]_vars

\* Specification SpecLogin: logins of the two accounts, one after the other
NextLogin ==
    \/ \E u \in Users, fiuna \in BOOLEAN : login(u, fiuna)
    \/ \E outcome \in Faults \cup {"ok", "no_user"} : signInSettles(outcome)
    \/ \E outcome \in Faults \cup {"ok"} : profileQuerySettles(outcome)
    \/ profileTimeout
    \/ \E outcome \in {"ok", "no_user", "throws"} : getUserSettles(outcome)
    \/ \E outcome \in Faults \cup {"ok"} : profileInsertSettles(outcome)
    \/ loginAgain

SpecLogin == Init /\ [][NextLogin]_vars

\* Specification SpecOverlap: reservations are submitted through both
\* creation paths, the times of createReservation written in either format,
\* and a block with both times is inserted
TimedBlocks ==
    {b \in BlockRows : /\ b.start_time /= NoTime /\ b.end_time /= NoTime
                       /\ b.start_time < b.end_time
                       /\ b.motivo = NULL
                       /\ b.created_by = "adm"}

NextOverlap ==
    \/ \E q \in SlotRequests : addReservation(q, TRUE)
    \/ \E q \in SlotRequests, fmt \in TimeFormats : createReservation(q, fmt, TRUE, TRUE)
    \/ \E b \in TimedBlocks : InsertBlockedDate("adm", b, {})

SpecOverlap == Init /\ [][NextOverlap]_vars

\* Specification SpecProfile: a user without a fiuna address logs in, which
\* creates their profile, writes to their own profile row through the API,
\* and then asks for the approval of a reservation
Flags == {"true", "false"}

NextProfile ==
    \/ login("usr", FALSE)
    \/ \E outcome \in {"ok"} \cup Faults : signInSettles(outcome)
    \/ \E outcome \in {"ok"} \cup Faults : profileQuerySettles(outcome)
    \/ profileTimeout
    \/ \E outcome \in {"ok", "throws"} : getUserSettles(outcome)
    \/ \E outcome \in {"ok"} \cup Faults : profileInsertSettles(outcome)
    \/ loginAgain
    \/ \E v \in Flags : InsertProfile("usr", "usr", v)
    \/ \E v \in Flags : UpdateProfile("usr", "usr", v)
    \/ \E q \in CancelRequests : addReservation(q, TRUE)
    \/ \E i \in Ids : handleApproveReservation("usr", i, TRUE)

SpecProfile == Init /\ [][NextProfile]_vars

\* Specification SpecHook: the reservation page mounts while reservations
\* are submitted and a day is blocked, its two selects end in data, in an
\* error or in a throw, and the page may unmount at any await. The retry
\* timer is no step of it: it is armed in initialize's catch only, which no
\* settled fetchReservations reaches.
NextHook ==
    \/ \E q \in CancelRequests : addReservation(q, TRUE)
    \/ \E b \in CancelBlocks : InsertBlockedDate("adm", b, {})
    \/ mountEffect
    \/ \E outcome \in SelectOutcomes : fetchReservationsSettles(outcome)
    \/ \E outcome \in SelectOutcomes : fetchBlockedDatesSettles(outcome)
    \/ unmount

SpecHook == Init /\ [][NextHook]_vars

\* Specification SpecSlot: reservations of any owner are submitted and
\* approved, and an admin blocks an interval of a date with blockTimeSlot
SlotIntervals == {iv \in Times \X Times : iv[1] < iv[2]}

NextSlot ==
    \/ \E q \in BlockRequests : addReservation(q, TRUE)
    \/ \E i \in Ids : handleApproveReservation("adm", i, TRUE)
    \/ \E date \in Fechas, iv \in SlotIntervals, delivered \in BOOLEAN :
          blockTimeSlot("adm", date, iv[1], iv[2], "r", delivered, {})

SpecSlot == Init /\ [][NextSlot]_vars

\* Specification SpecRace: two browser sessions, each calling addReservation
\* once; the two inserts reach the table in either order
NextRace ==
    \/ \E c \in Clients, q \in SlotRequests : Submit(c, q)
    \/ \E c \in Clients : DbInsert(c)

SpecRace == Init /\ [][NextRace]_vars

(* ------------------------------- claims -------------------------------- *)
\* the reference reading of "active" and of "the half-open intervals overlap"
Active(r) == r.status \in {"pending", "approved"}

Intersects(r1, r2) ==
    r1.fecha = r2.fecha /\ r1.inicio < r2.fin /\ r2.inicio < r1.fin

\* C1: in every reachable state no two distinct reservations with the same
\* fecha and a status in {pending, approved} have overlapping intervals
\* [inicio, fin).
NoOverlap ==
    \A i, j \in LiveIds(db) :
        (i /= j /\ Active(db[i]) /\ Active(db[j])) => ~Intersects(db[i], db[j])

\* two active reservations share a date, and a write that would have made
\* them overlap has just been refused
NoOverlapWitness ==
    /\ fx.res = "SLOT_TAKEN"
    /\ \E i, j \in LiveIds(db) :
          /\ i /= j
          /\ Active(db[i]) /\ Active(db[j])
          /\ db[i].fecha = db[j].fecha

\* a submission the check constraints let through
WellFormed(q) == q.fin > q.inicio /\ q.personas > 0

\* C2: of two concurrent addReservation calls for overlapping intervals on
\* the same date and a free slot, exactly one commits, its row pending, and
\* the other returns SLOT_TAKEN; never both succeed.
RaceExactlyOne ==
    \A c1, c2 \in Clients :
        (/\ c1 /= c2
         /\ sub[c1].pc = "done" /\ sub[c2].pc = "done"
         /\ WellFormed(sub[c1].req) /\ WellFormed(sub[c2].req)
         /\ Intersects(sub[c1].req, sub[c2].req))
        => /\ \/ sub[c1].result = "ok" /\ sub[c2].result = "SLOT_TAKEN"
              \/ sub[c1].result = "SLOT_TAKEN" /\ sub[c2].result = "ok"
           /\ Cardinality(LiveIds(db)) = 1
           /\ \A c \in {c1, c2} :
                 sub[c].result = "ok"
                     => /\ Exists(db, sub[c].id)
                        /\ db[sub[c].id].status = "pending"
                        /\ db[sub[c].id].fecha = sub[c].req.fecha
                        /\ db[sub[c].id].inicio = sub[c].req.inicio
                        /\ db[sub[c].id].fin = sub[c].req.fin

\* both calls have returned, for different but overlapping intervals, and the
\* first session is the one that was refused
RaceWitness ==
    /\ sub["c1"].pc = "done" /\ sub["c2"].pc = "done"
    /\ Intersects(sub["c1"].req, sub["c2"].req)
    /\ sub["c1"].req /= sub["c2"].req
    /\ sub["c1"].result = "SLOT_TAKEN"
    /\ sub["c2"].result = "ok"

\* no active reservation of table d intersects the slot q asks for
SlotFree(d, q) == \A j \in LiveIds(d) : Active(d[j]) => ~Intersects(d[j], q)

\* row i is the only active reservation of table d intersecting its interval
SoleOccupant(d, i) ==
    \A j \in LiveIds(d) \ {i} : Active(d[j]) => ~Intersects(d[j], d[i])

\* C3: a well-formed submission is accepted if and only if no active
\* reservation on its date overlaps [inicio, fin); an accepted reservation is
\* stored with the slot asked for, and every active reservation stays the
\* only active one intersecting its interval.
AcceptedIffFree ==
    [][/\ \A q \in SlotRequests :
            (WellFormed(q) /\ addReservation(q, TRUE))
            => /\ (fx'.res = "ok") <=> SlotFree(db, q)
               /\ fx'.res = "ok"
                    => /\ LiveIds(db') = LiveIds(db) \cup {nextId'}
                       /\ nextId' \notin LiveIds(db)
                       /\ Active(db'[nextId'])
                       /\ db'[nextId'].fecha = q.fecha
                       /\ db'[nextId'].inicio = q.inicio
                       /\ db'[nextId'].fin = q.fin
               /\ fx'.res /= "ok" => db' = db
       /\ \A i \in LiveIds(db') : Active(db'[i]) => SoleOccupant(db', i)
      ]_vars

\* a submission has just been accepted next to an active reservation whose
\* interval touches its own
AcceptedWitness ==
    /\ fx.res = "ok" /\ fx.sent = {2}
    /\ Exists(db, 1) /\ Exists(db, 2)
    /\ db[1].status = "approved" /\ db[2].status = "pending"
    /\ db[1].fecha = db[2].fecha
    /\ db[1].fin = db[2].inicio

\* C4: an unconfirmed pending reservation occupies its slot: an overlapping
\* submission is refused with SLOT_TAKEN and stores nothing; whether a
\* submission is accepted is decided by status and interval alone, whatever
\* the confirmed flags; and confirming changes no reservation's status.
UnconfirmedOccupies ==
    [][/\ \A q \in SlotRequests :
            (WellFormed(q) /\ addReservation(q, TRUE))
            => /\ (\E i \in LiveIds(db) : /\ db[i].status = "pending"
                                          /\ ~db[i].confirmed
                                          /\ Intersects(db[i], q))
                    => (fx'.res = "SLOT_TAKEN" /\ db' = db)
               /\ fx'.res = IF SlotFree(db, q) THEN "ok" ELSE "SLOT_TAKEN"
       /\ \A a \in Actors, t \in Tokens :
            confirmReservation(a, t)
            => \A i \in Ids :
                  /\ Exists(db', i) <=> Exists(db, i)
                  /\ Exists(db, i) => db'[i].status = db[i].status
      ]_vars

\* the only reservation in the table is pending and unconfirmed, and a
\* submission has just been refused because of it
UnconfirmedWitness ==
    /\ LiveIds(db) = {1}
    /\ db[1].status = "pending"
    /\ ~db[1].confirmed
    /\ fx.res = "SLOT_TAKEN"

\* the slot q asks for was held by a reservation that is now cancelled or
\* rejected, and nothing else on that date is active
Released(d, q) ==
    /\ \E i \in LiveIds(d) : /\ d[i].fecha = q.fecha
                              /\ d[i].inicio = q.inicio
                              /\ d[i].fin = q.fin
                              /\ d[i].status \in {"cancelled", "rejected"}
    /\ \A i \in LiveIds(d) : d[i].fecha = q.fecha => ~Active(d[i])

\* C5: after a reservation is cancelled or rejected, a submission for the
\* identical date and interval succeeds on either creation path: the
\* pre-check of createReservation and the constraint both take the interval
\* as free.
ReleasedSlotReopens ==
    [][\A q \in SlotRequests :
          (WellFormed(q) /\ Released(db, q))
          => /\ addReservation(q, TRUE) => fx'.res = "ok"
             /\ \A fmt \in TimeFormats :
                   createReservation(q, fmt, TRUE, TRUE) => fx'.res = "ok"
      ]_vars

\* a rejected reservation, and a createReservation for its slot just refused
\* by the pre-check
RejectedStillBlocks ==
    /\ LiveIds(db) = {1}
    /\ fetchReservations(db) = {1}
    /\ db[1].status = "rejected"
    /\ fx.res = "unavailable"

\* the block a step has inserted
Inserted(old, new) == CHOOSE b \in new \ old : TRUE

NoSubInterval(b) == b.start_time = NoTime /\ b.end_time = NoTime

HasSubInterval(b) == b.start_time /= NoTime /\ b.end_time /= NoTime

\* reservation r is one the block b must cancel
BlockCovers(r, b) ==
    /\ r.fecha = b.fecha
    /\ Active(r)
    /\ \/ NoSubInterval(b)
       \/ HasSubInterval(b) /\ r.inicio < b.end_time /\ b.start_time < r.fin

\* C6: the insert of a blocked date, whole-day or with a sub-interval, sets
\* status cancelled on exactly the active reservations of its date that it
\* covers, leaving their slot as it was, and leaves every other reservation
\* unchanged.
CascadeExact ==
    [][blocked' /= blocked
       => LET b == Inserted(blocked, blocked')
          IN  (NoSubInterval(b) \/ HasSubInterval(b))
              => \A i \in Ids :
                    IF Exists(db, i) /\ BlockCovers(db[i], b)
                    THEN /\ db'[i].status = "cancelled"
                         /\ db'[i].fecha = db[i].fecha
                         /\ db'[i].inicio = db[i].inicio
                         /\ db'[i].fin = db[i].fin
                    ELSE db'[i] = db[i]
      ]_vars

\* a block with a sub-interval stands; on its date one reservation lies in
\* the sub-interval and is cancelled, another lies outside and is still
\* active; a reservation can only be cancelled by a block here
CascadeWitness ==
    /\ \E b \in blocked : HasSubInterval(b)
    /\ \E i, j \in LiveIds(db) :
          /\ db[i].fecha = 1 /\ db[j].fecha = 1
          /\ db[i].status = "cancelled"
          /\ Active(db[j])

\* C7: the cascade appends exactly one audit row for each reservation it
\* cancels, holding the status the reservation had and a snapshot of it.
CascadeAudited ==
    [][blocked' /= blocked
       => LET hit == {i \in LiveIds(db) : Active(db[i]) /\ db'[i].status = "cancelled"}
              added == {k \in 1..Len(cancellations') : k > Len(cancellations)}
          IN  /\ Len(cancellations') = Len(cancellations) + Cardinality(hit)
              /\ \A i \in hit :
                    \E k \in added :
                       /\ cancellations'[k].reservation_id = i
                       /\ cancellations'[k].previous_status = db[i].status
                       /\ cancellations'[k].reservation_snapshot = db[i]
      ]_vars

\* a reservation was cancelled by a block, which left its reason in the
\* notes, and no audit row exists
CascadeUnaudited ==
    /\ blocked /= {}
    /\ cancellations = << >>
    /\ \E i \in LiveIds(db) :
          /\ db[i].status = "cancelled"
          /\ db[i].admin_notes /= << >>

\* C8: the insert of a blocked date leaves every reservation whose
\* responsable is 'Admin' as it was.
AdminPlaceholderSpared ==
    [][blocked' /= blocked
       => \A i \in LiveIds(db) : db[i].responsable = "Admin" => db'[i] = db[i]
      ]_vars

\* a reservation of responsable 'Admin' has been cancelled by a block
AdminPlaceholderCancelled ==
    /\ blocked /= {}
    /\ \E i \in LiveIds(db) :
          /\ db[i].responsable = "Admin"
          /\ db[i].status = "cancelled"

\* notes `new` are notes `old` followed by one more paragraph
OneNoteAppended(old, new) ==
    Len(new) = Len(old) + 1 /\ SubSeq(new, 1, Len(old)) = old

\* C9: a cancellation, by deleteReservation or by the cascade, deletes no
\* row and appends its reason to admin_notes: the cancelled row keeps the
\* notes it held, followed by the reason, which for the cascade is 'Fechas
\* bloqueadas por administracion: ' and the block's motivo.
CancelKeepsNotes ==
    [][\A i \in LiveIds(db) :
          /\ Exists(db', i)
          /\ (Active(db[i]) /\ db'[i].status = "cancelled")
             => /\ OneNoteAppended(db[i].admin_notes, db'[i].admin_notes)
                /\ (blocked' /= blocked /\ Inserted(blocked, blocked').motivo /= NULL)
                   => db'[i].admin_notes[Len(db'[i].admin_notes)]
                        = "Fechas bloqueadas por administracion: "
                            \o Inserted(blocked, blocked').motivo
      ]_vars

\* a reservation cancelled by deleteReservation whose audit snapshot still
\* shows the note it carried, while the row holds the reason alone
CancelLostNotes ==
    \E i \in LiveIds(db) :
        /\ db[i].status = "cancelled"
        /\ Len(db[i].admin_notes) = 1
        /\ \E k \in 1..Len(cancellations) :
              /\ cancellations[k].reservation_id = i
              /\ Active(cancellations[k].reservation_snapshot)
              /\ cancellations[k].reservation_snapshot.admin_notes = <<"nota">>

\* C10: a failed side effect does not change the outcome: deleteReservation
\* whose audit insert or e-mail fails, and a block insert some of whose
\* notifications fail, still commit the cancellation and report success.
SideEffectsIsolated ==
    [][/\ \A i \in LiveIds(db), delivered \in BOOLEAN, mailOk \in BOOLEAN :
            (deleteReservation("adm", i, NULL, delivered, mailOk)
                /\ (~delivered \/ ~mailOk))
            => /\ Exists(db', i)
               /\ db'[i].status = "cancelled"
               /\ fx'.res = "ok"
       /\ \A b \in CancelBlocks, mailFails \in SUBSET Ids :
            (InsertBlockedDate("adm", b, mailFails) /\ mailFails /= {})
            => /\ b \in blocked'
               /\ fx'.res = "ok"
               /\ \A i \in LiveIds(db) :
                     BlockCovers(db[i], b) => db'[i].status = "cancelled"
      ]_vars

\* deleteReservation has reported success for a reservation that is now
\* cancelled although both its audit insert and its e-mail failed
SideEffectsWitness ==
    /\ fx.res = "ok"
    /\ 0 \in fx.failed
    /\ \E i \in fx.failed \ {0} : Exists(db, i) /\ db[i].status = "cancelled"

\* the audit rows of reservation i
AuditsOf(log, i) == {k \in 1..Len(log) : log[k].reservation_id = i}

\* C11: a step of deleteReservation finds a reservation that is already
\* cancelled and leaves it as it is, and appends no further audit row for it.
DeleteIdempotent ==
    [][del' /= del
       => \A i \in LiveIds(db) :
             db[i].status = "cancelled"
                 => /\ db'[i] = db[i]
                    /\ AuditsOf(cancellations', i) = AuditsOf(cancellations, i)
      ]_vars

\* a reservation with two audit rows, the second written when it was
\* already cancelled
DeleteRepeated ==
    \E i \in LiveIds(db) :
        /\ db[i].status = "cancelled"
        /\ Cardinality(AuditsOf(cancellations, i)) = 2
        /\ \E k \in AuditsOf(cancellations, i) :
              cancellations[k].previous_status = "cancelled"

\* C12: an audit row, once written, stays in the table as it was written:
\* every step keeps the rows that exist and at most appends to them.
AuditAppendOnly ==
    [][/\ Len(cancellations') >= Len(cancellations)
       /\ \A k \in 1..Len(cancellations) : cancellations'[k] = cancellations[k]
      ]_vars

\* the reservation that was cancelled and audited is gone, and so is its
\* audit row
AuditPurged ==
    /\ nextId >= 1
    /\ ~Exists(db, 1)
    /\ cancellations = << >>
    /\ fx.res = "ok"
    /\ now >= 2 * TokenTTL

\* C13: when a deleteReservation call that wrote an audit row returns, the
\* reservation has just gone from an active status to cancelled, the call's
\* row is the only audit row of that reservation, and its previous_status is
\* the status the reservation had right before the update.
AuditMatchesCancellation ==
    [][\A k \in Calls :
          (del[k].pc = "update" /\ del'[k].pc = "idle" /\ del[k].auditOk)
          => LET i == del[k].id
             IN  /\ Exists(db, i)
                 /\ Active(db[i])
                 /\ db'[i].status = "cancelled"
                 /\ Cardinality(AuditsOf(cancellations', i)) = 1
                 /\ \A a \in AuditsOf(cancellations', i) :
                       cancellations'[a].previous_status = db[i].status
      ]_vars

\* a reservation approved between the read and the update of the call that
\* cancelled it: its only audit row says it was pending
AuditStale ==
    \E i \in LiveIds(db) :
        /\ db[i].status = "cancelled"
        /\ \A k \in Calls : del[k].pc = "idle"
        /\ Cardinality(AuditsOf(cancellations, i)) = 1
        /\ \E a \in AuditsOf(cancellations, i) :
              /\ cancellations[a].previous_status = "pending"
              /\ cancellations[a].reservation_snapshot.status = "pending"
        /\ fx.res = "ok" /\ fx.sent = {i} /\ fx.failed = {}
        /\ db[i].admin_notes = <<"Motivo: No especificado">>
        /\ db[i].updated_by = "adm"

\* C14: every step that creates a reservation stores it with status pending,
\* confirmed false and a token expiry 24 hours after its creation.
CreatedPendingWithExpiry ==
    [][nextId' /= nextId
       => LET r == db'[nextId']
          IN  /\ r.status = "pending"
              /\ r.confirmed = FALSE
              /\ r.created_at = now
              /\ r.token_expires_at = r.created_at + TokenTTL
      ]_vars

\* a reservation just created by createReservation, a day after the first
\* one: pending and unconfirmed, without a token expiry
CreatedWithoutExpiry ==
    /\ nextId = 2
    /\ Exists(db, 2)
    /\ db[2].status = "pending"
    /\ db[2].confirmed = FALSE
    /\ db[2].created_at = TokenTTL
    /\ db[2].token_expires_at = NoTime
    /\ db[1].token_expires_at = db[1].created_at + TokenTTL
    /\ fx.res = "ok"

\* C15: when a public visitor opens the link of a reservation whose token has
\* not expired, the reservation becomes confirmed, nothing else in the table
\* changes, and the page shows 'success'.
VisitorConfirms ==
    [][\A t \in Ids :
          (/\ Exists(db, t)
           /\ db[t].token_expires_at > now
           /\ confirmReservation("anon", t))
          => /\ db' = [db EXCEPT ![t].confirmed = TRUE]
             /\ fx'.res = "success"
      ]_vars

\* the only reservation, its token still valid, is unconfirmed after its
\* link was opened, and the page shows 'expired'
VisitorTurnedAway ==
    /\ nextId = 1
    /\ Exists(db, 1)
    /\ db[1].token_expires_at > now
    /\ db[1].confirmed = FALSE
    /\ fx.res = "expired"

\* token t has been used: its reservation is confirmed
Consumed(d, t) == t \in LiveIds(d) /\ d[t].confirmed

\* C16: opening a link reports 'success' only when it flips confirmed from
\* false to true on a reservation whose token has not expired, 'expired'
\* exactly when the token is that of an unconfirmed reservation whose window
\* has passed, and 'error' when the token matches no reservation or has
\* already been consumed.
ConfirmsOnce ==
    [][\A t \in Tokens :
          confirmReservation("adm", t)
          => /\ fx'.res = "success"
                  => /\ t \in LiveIds(db) /\ ~db[t].confirmed /\ db'[t].confirmed
                     /\ db[t].token_expires_at > now
             /\ fx'.res = "expired"
                  <=> /\ t \in LiveIds(db) /\ ~db[t].confirmed
                      /\ db[t].token_expires_at <= now
             /\ (t \notin LiveIds(db) \/ Consumed(db, t)) => fx'.res = "error"
      ]_vars

\* the link of a confirmed reservation, opened again after its window has
\* passed, shows 'expired'
ConsumedReportedExpired ==
    /\ nextId = 1
    /\ Consumed(db, 1)
    /\ db[1].token_expires_at <= now
    /\ fx.res = "expired"

\* the status changes of the lifecycle
Transition(from, to) ==
    \/ from = "pending" /\ to \in {"approved", "rejected", "cancelled"}
    \/ from = "approved" /\ to = "cancelled"

\* C17: in every step each reservation keeps its status or changes it along
\* pending -> approved, pending -> rejected, pending -> cancelled or
\* approved -> cancelled; rejected and cancelled are never left.
StatusLifecycle ==
    [][\A i \in LiveIds(db) :
          Exists(db', i)
              => \/ db'[i].status = db[i].status
                 \/ Transition(db[i].status, db'[i].status)
      ]_vars

\* a reservation cancelled by the cascade of a block (its notes carry the
\* cascade's reason) that is approved now
CascadeCancelledRevived ==
    \E i \in LiveIds(db) :
        /\ db[i].status = "approved"
        /\ db[i].admin_notes = <<cancel_reason(NULL)>>
        /\ blocked /= {}
        /\ fx.res = "ok" /\ fx.sent = {i}

\* C18: every admin-only request made by an anonymous visitor or by a user
\* whose profile is not an admin's leaves the reservations and the blocked
\* dates as they were.
AdminGate ==
    [][\A a \in Outsiders : AdminOnly(a) => (db' = db /\ blocked' = blocked)]_vars

\* reservation 1 is still pending and the block still in place after a
\* request by a non-admin that reported success and mailed about it
AdminGateWitness ==
    /\ nextId = 2
    /\ Exists(db, 1) /\ db[1].status = "pending"
    /\ Exists(db, 2) /\ db[2].status = "cancelled"
    /\ blocked /= {}
    /\ fx.res = "ok"
    /\ fx.sent = {1}

\* the waits the retry policy prescribes
Backoffs == <<600, 1200>>

\* the attempts of request m that failed, and whether one succeeded
Failures(m) == {k \in 1..Len(m.outcomes) : m.outcomes[k] /= "ok"}

Delivered(m) == \E k \in 1..Len(m.outcomes) : m.outcomes[k] = "ok"

SlotTakenReported ==
    [][\A q \in SlotRequests :
          addReservation(q, TRUE)
          => LET err == WriteError(db, nextId + 1, insertData(q, now + TokenTTL, now))
             IN  /\ err = "23P01"
                     => /\ db' = db /\ nextId' = nextId
                        /\ fx' = Fx("SLOT_TAKEN", {}, {})
                        /\ addReservationToast(fx'.res)
                             = "Este horario ya fue reservado por otra persona. Por favor, elige otro horario."
                 /\ err \notin {"ok", "23P01"}
                     => /\ db' = db /\ nextId' = nextId
                        /\ fx'.sent = {}
                        /\ addReservationToast(fx'.res) = "Error al crear la reserva"
      ]_vars

\* a submission turned away as slot taken by the one reservation there is
SlotTakenWitness ==
    /\ nextId = 1
    /\ Exists(db, 1) /\ Active(db[1])
    /\ fx = Fx("SLOT_TAKEN", {}, {})
    /\ addReservationToast(fx.res) /= "Error al crear la reserva"

\* the calls of the form whose insert has not settled
Outstanding == {c \in Clients : sub[c].pc = "inflight"}

\* C21: at any time at most one insert of the form is outstanding.
OneInsertOutstanding == Cardinality(Outstanding) <= 1

\* two inserts of the same form outstanding while it shows its loading state
TwoInsertsOutstanding ==
    /\ Cardinality(Outstanding) = 2
    /\ form.isSubmitting
    /\ nextId = 0

\* C22: fetchUserProfile never rejects and settles with false when its query
\* timed out, answered with an error, or a step threw; and login returns true
\* exactly when signInWithPassword succeeded.
LoginFailsOpen ==
    /\ auth.fetched /= "rejected"
    /\ auth.cause \in {"timeout", "error", "throws"} => auth.fetched = "false"
    /\ auth.pc = "done" => (auth.result = "true" <=> auth.signIn = "ok")
    /\ (auth.pc = "done" /\ auth.signIn = "ok" /\ auth.cause /= "none")
          => auth.fetched \in {"true", "false"}

\* a login that returned true although the profile lookup timed out
LoginDespiteTimeout ==
    /\ auth.pc = "done"
    /\ auth.signIn = "ok"
    /\ auth.cause = "timeout"
    /\ auth.fetched = "false"
    /\ auth.result = "true"
    /\ profiles[auth.user] = "true"

\* reservation r is inside its confirmation window at time t
InsideWindow(r, t) == r.token_expires_at /= NoTime /\ r.token_expires_at > t

\* C23: a step removes a reservation only if it is unconfirmed and its
\* confirmation window has passed; a confirmed reservation stays confirmed
\* and stays in the table.
SweepOnlyExpired ==
    [][\A i \in LiveIds(db) :
          /\ ~Exists(db', i) => (~db[i].confirmed /\ ~InsideWindow(db[i], now))
          /\ db[i].confirmed => (Exists(db', i) /\ db'[i].confirmed)
      ]_vars

\* after a sweep the confirmed reservation of two days ago is still there,
\* the unconfirmed one of the same day is gone
SweepWitness ==
    /\ nextId = 2
    /\ now = 2 * TokenTTL
    /\ Exists(db, 1) /\ db[1].confirmed /\ db[1].created_at = 0
    /\ ~Exists(db, 2)
    /\ fx = Fx("ok", {}, {})

\* C24: blockTimeSlot(date, start, end) cancels a reservation if and only if
\* it is on that date, not already cancelled, not owned by 'Admin', and its
\* interval overlaps [start, end).
BlockCancelsOverlapping ==
    [][\A date \in Fechas, iv \in SlotIntervals, delivered \in BOOLEAN :
          blockTimeSlot("adm", date, iv[1], iv[2], "r", delivered, {})
              => \A i \in LiveIds(db) :
                    (db[i].status /= "cancelled" /\ db'[i].status = "cancelled")
                        <=> /\ db[i].fecha = date
                            /\ db[i].status /= "cancelled"
                            /\ db[i].responsable /= "Admin"
                            /\ db[i].inicio < iv[2]
                            /\ db[i].fin > iv[1]
      ]_vars

\* C28: a blockTimeSlot whose insert of the placeholder fails has cancelled
\* nothing and produced no audit row and no e-mail; one that succeeds leaves
\* an active placeholder on exactly the blocked interval.
BlockAllOrNothing ==
    [][\A date \in Fechas, iv \in SlotIntervals, delivered \in BOOLEAN :
          blockTimeSlot("adm", date, iv[1], iv[2], "r", delivered, {})
              => /\ fx'.res = "error"
                    => /\ db' = db
                       /\ cancellations' = cancellations
                       /\ fx'.sent = {}
                 /\ fx'.res = "ok"
                    => /\ nextId' = nextId + 1
                       /\ Active(db'[nextId'])
                       /\ db'[nextId'].responsable = "Admin"
                       /\ db'[nextId'].fecha = date
                       /\ db'[nextId'].inicio = iv[1]
                       /\ db'[nextId'].fin = iv[2]
      ]_vars

\* C25: for well-formed intervals the overlap test of checkAvailability and
\* the one of cancel_reservations_in_blocked_range give the result of
\* doTimeRangesOverlap on the two intervals, so that a booking that only
\* touches an existing one is accepted.
OverlapTestsAgree ==
    [][/\ \A q \in SlotRequests, fmt \in TimeFormats :
             (q.fin > q.inicio /\ createReservation(q, fmt, TRUE, TRUE))
                 => (fx'.res = "unavailable"
                        <=> \E i \in LiveIds(db) :
                               /\ db[i].status /= "cancelled"
                               /\ db[i].fecha = q.fecha
                               /\ doTimeRangesOverlap(q.inicio, q.fin,
                                                      db[i].inicio, db[i].fin))
       /\ \A b \in TimedBlocks :
             InsertBlockedDate("adm", b, {})
                 => \A i \in LiveIds(db) :
                       (Active(db[i]) /\ db[i].fecha = b.fecha)
                           => (db'[i].status = "cancelled"
                                  <=> doTimeRangesOverlap(db[i].inicio, db[i].fin,
                                                          b.start_time, b.end_time))
      ]_vars

\* block b, whole-day or with both times, covers part of reservation r
Blocks(b, r) ==
    /\ b.fecha = r.fecha
    /\ \/ b.start_time = NoTime /\ b.end_time = NoTime
       \/ /\ b.start_time /= NoTime
          /\ b.end_time /= NoTime
          /\ doTimeRangesOverlap(r.inicio, r.fin, b.start_time, b.end_time)

\* C26: in every reachable state no pending or approved reservation overlaps
\* a standing blocked date of its date.
NoActiveInsideBlock ==
    \A b \in blocked, i \in LiveIds(db) : Active(db[i]) => ~Blocks(b, db[i])

\* C27: when a blocked date is inserted, every active reservation whose slot
\* isTimeSlotWithinBlockedPeriod reports as blocked by that row is cancelled
\* by the trigger, also when the row has exactly one of its two times.
CascadeMatchesClient ==
    [][\A b \in CascadeBlocks, mailFails \in SUBSET Ids :
          (blocked_dates_time_order_check(b) /\ InsertBlockedDate("adm", b, mailFails))
              => \A i \in LiveIds(db) :
                    (/\ Active(db[i])
                     /\ isTimeSlotWithinBlockedPeriod(db[i].fecha,
                                                      DbTimeText(db[i].inicio),
                                                      DbTimeText(db[i].fin), {b}))
                        => db'[i].status = "cancelled"
      ]_vars

\* C29: no request of a user who is not an admin (sign-in with the creation
\* of their profile, insert of their own profile, update of their own
\* profile) leaves that user with a profile with is_admin = true, and their
\* request to approve a reservation changes no status.
NoSelfPromotion ==
    [][/\ profiles["usr"] /= "true" => profiles'["usr"] /= "true"
       /\ \A i \in LiveIds(db) : db'[i].status = db[i].status
      ]_vars

\* C30: a failed initial fetch of reservations ends the loading state only
\* after maxRetries re-attempts, with the reload message; and no setter runs
\* after the component has unmounted.
InitializationRetries ==
    /\ (hook.pc = "done" /\ hook.mountedRef /\ hook.lastFetch \in {"error", "throws"})
          => /\ hook.fetchAttemptsRef = fetchMaxRetries
             /\ "Error al cargar los datos de reservas" \in hook.toasts
             /\ ~hook.isLoading
    /\ ~hook.late

====
